---- MODULE Spec2Model ----
(***************************************************************************)
(* heif2jpg: one run of main() in src/app/main.cc.  The decoder (libheif)  *)
(* and the encoder (libultrahdr) are external; their results are inputs    *)
(* drawn from small sets.  Planes are arrays of 16-bit words; a stride is  *)
(* kept in bytes, as heif_image_get_plane_readonly2 reports it.            *)
(***************************************************************************)
EXTENDS Integers, Sequences, FiniteSets, TLC

\* ---------------------------------------------------------------- bounds
MaxW == 3
MaxH == 4
MaxPad == 1
MaxSeed == 1
MaxEnc == 2

\* ---------------------------------------------------------------- program constants
WordMod == 65536
ShiftMul == 64
TenBit == 10

RetArgs == 1
RetInputOpen == 2
RetCtxAlloc == 3
RetRead == 4
RetNoImage == 5
RetManyImages == 6
RetHandle == 7
RetDecode == 8
RetOutputOpen == 9
RetGeometry == 10
RetBitDepth == 10
RetEncSetup == 11
RetEncEncode == 12
RetWrite == 13

\* ---------------------------------------------------------------- pure helpers

\* uint16_t word = (word << 6): the shift is done in int, the store truncates
\* to 16 bits.
Shl6_NoTruncate(word) == word * ShiftMul

Shl6(word) == (word * ShiftMul) % WordMod

\* if (y_bpp == 10)
DepthSupported_AtLeast8(bpp) == bpp >= 8

DepthSupported(bpp) == bpp = TenBit

\* if (yw < 0 || cw < 0)
GeometryRejected(w, c) == w < 0 \/ c < 0

\* Word offset the loops read for row y, column z: *(p_16 + z + (y * w)).
SrcOffset(z, y, w) == z + (y * w)

\* 16-bit words the decoder may hand over; several have non-zero high bits.
SampleWords == <<0, 1, 100, 1023, 1024, 33791, 64512, 65535>>

PadWords == {7, 65535}

\* The sample of plane p (0 = Y, 1 = Cb, 2 = Cr) at column x, row y.
SampleAt(seed, p, x, y) ==
    SampleWords[((seed + x + (3 * y) + (5 * p)) % Len(SampleWords)) + 1]

\* A plane of w x h samples laid out with a row stride of sw words; the words
\* between the end of a row and the next row hold padding.
PlaneMem(seed, p, w, h, sw, padw) ==
    [i \in 1..(sw * h) |->
        LET x == (i - 1) % sw
            y == (i - 1) \div sw
        IN  IF x < w THEN SampleAt(seed, p, x, y) ELSE padw]

\* 4:2:0 chroma dimension for a luma dimension.
ChromaDim(n) == (n + 1) \div 2

NoImage ==
    [yw |-> 0, yh |-> 0, cw |-> 0, ch |-> 0,
     y_stride |-> 0, cb_stride |-> 0, cr_stride |-> 0,
     y_bpp |-> 0, Y |-> <<>>, Cb |-> <<>>, Cr |-> <<>>]

\* Row stride in words of a plane of width w with pad padding words; libheif
\* never lays a row out in zero bytes.
StrideWords(w, pad) == IF w + pad = 0 THEN 1 ELSE w + pad

\* A decoded 4:2:0 image with all three channels present.
ImageOf(w, h, bpp, ypad, cpad, seed, padw) ==
    [yw |-> w, yh |-> h, cw |-> ChromaDim(w), ch |-> ChromaDim(h),
     y_stride |-> 2 * StrideWords(w, ypad),
     cb_stride |-> 2 * StrideWords(ChromaDim(w), cpad),
     cr_stride |-> 2 * StrideWords(ChromaDim(w), cpad),
     y_bpp |-> bpp,
     Y  |-> PlaneMem(seed, 0, w, h, StrideWords(w, ypad), padw),
     Cb |-> PlaneMem(seed, 1, ChromaDim(w), ChromaDim(h),
                     StrideWords(ChromaDim(w), cpad), padw),
     Cr |-> PlaneMem(seed, 2, ChromaDim(w), ChromaDim(h),
                     StrideWords(ChromaDim(w), cpad), padw)]

\* A decoded image with a channel missing: the getters report width, height
\* and bit depth -1 for it, return no plane and leave its stride unset, so
\* the stride the code then reads is indeterminate (0 or 2 here).
ImageMissing(lumaToo, ys, cs) ==
    [yw |-> IF lumaToo THEN -1 ELSE 1, yh |-> IF lumaToo THEN -1 ELSE 1,
     cw |-> -1, ch |-> -1,
     y_stride |-> ys, cb_stride |-> cs, cr_stride |-> cs,
     y_bpp |-> IF lumaToo THEN -1 ELSE TenBit,
     Y |-> IF lumaToo THEN <<>> ELSE <<SampleAt(0, 0, 0, 0)>>,
     Cb |-> <<>>, Cr |-> <<>>]

\* What heif_decode_image can hand over.
DecodedImages ==
    { ImageOf(w, h, bpp, ypad, cpad, seed, padw) :
        w \in 0..MaxW, h \in 0..MaxH, bpp \in {8, TenBit},
        ypad \in 0..MaxPad, cpad \in 0..MaxPad,
        seed \in 0..MaxSeed, padw \in PadWords }
    \cup { ImageMissing(FALSE, 2, cs) : cs \in {0, 2} }
    \cup { ImageMissing(TRUE, ys, 2) : ys \in {0, 2} }

\* ---------------------------------------------------------------- state
VARIABLES
    pc,              \* position in main / save_p010_file / save_uhdr_jpg_file
    output_p010,     \* the -p flag
    img,             \* the decoded heif_image
    fp,              \* the std::ofstream: [open, bad]
    file,            \* the output file on disk: [touched, data]
    raw_uhdr_image,  \* the encoder's raw-image descriptor and its two buffers
    heap,            \* state of each malloc'ed buffer
    reads,           \* word offsets read from each source plane, in order
    encoder,         \* [invoked, released, size]
    ret,             \* value returned by the save function, -1 before it returns
    failure,         \* failure category reported on stderr, "none" if none
    exitCode,        \* exit status of the process, -1 while it runs
    success,         \* TRUE once main printed "Success!"
    prev             \* [failure, exitCode, p010] of the previous run

vars == <<pc, output_p010, img, fp, file, raw_uhdr_image, heap, reads,
          encoder, ret, failure, exitCode, success, prev>>

NoRaw ==
    [w |-> 0, h |-> 0, planeY |-> <<>>, planeUV |-> <<>>,
     allocY |-> 0, allocUV |-> 0, strideY |-> 0, strideUV |-> 0]

Init ==
    /\ pc = "main"
    /\ output_p010 = FALSE
    /\ img = NoImage
    /\ fp = [open |-> FALSE, bad |-> FALSE, requested |-> 0]
    /\ file = [touched |-> FALSE, data |-> <<>>]
    /\ raw_uhdr_image = NoRaw
    /\ heap = [planeY |-> "none", planeUV |-> "none", output |-> "none",
               overflow |-> FALSE]
    /\ reads = [Y |-> <<>>, Cb |-> <<>>, Cr |-> <<>>]
    /\ encoder = [invoked |-> FALSE, released |-> FALSE, size |-> 0]
    /\ ret = -1
    /\ failure = "none"
    /\ exitCode = -1
    /\ success = FALSE
    /\ prev = [failure |-> "none", exitCode |-> -1, p010 |-> FALSE]

\* ---------------------------------------------------------------- main

saveVars == <<img, fp, file, raw_uhdr_image, heap, reads, encoder, ret>>

\* return <code>; from main
Exit(code, category) ==
    /\ pc' = "done"
    /\ exitCode' = code
    /\ failure' = category
    /\ UNCHANGED <<success, prev>>

\* argparser.parse_args and the -p flag
ParseArgs ==
    /\ pc = "main"
    /\ \E ok \in BOOLEAN, p \in BOOLEAN :
          IF ok
          THEN /\ pc' = "open_input"
               /\ output_p010' = p
               /\ UNCHANGED <<saveVars, failure, exitCode, success, prev>>
          ELSE /\ Exit(RetArgs, "args")
               /\ UNCHANGED <<output_p010, saveVars>>

\* std::ifstream istr(input_filename)
OpenInput ==
    /\ pc = "open_input"
    /\ \E ok \in BOOLEAN :
          IF ok
          THEN /\ pc' = "ctx_alloc"
               /\ UNCHANGED <<failure, exitCode, success, prev>>
          ELSE Exit(RetInputOpen, "input_open")
    /\ UNCHANGED <<output_p010, saveVars>>

\* heif_context_alloc
ContextAlloc ==
    /\ pc = "ctx_alloc"
    /\ \E ok \in BOOLEAN :
          IF ok
          THEN /\ pc' = "read_file"
               /\ UNCHANGED <<failure, exitCode, success, prev>>
          ELSE Exit(RetCtxAlloc, "ctx_alloc")
    /\ UNCHANGED <<output_p010, saveVars>>

\* heif_context_read_from_file
ReadFromFile ==
    /\ pc = "read_file"
    /\ \E ok \in BOOLEAN :
          IF ok
          THEN /\ pc' = "num_images"
               /\ UNCHANGED <<failure, exitCode, success, prev>>
          ELSE Exit(RetRead, "read")
    /\ UNCHANGED <<output_p010, saveVars>>

\* heif_context_get_number_of_top_level_images
NumImages ==
    /\ pc = "num_images"
    /\ \E num_images \in 0..2 :
          IF num_images = 0 THEN Exit(RetNoImage, "no_image")
          ELSE IF num_images # 1 THEN Exit(RetManyImages, "many_images")
          ELSE /\ pc' = "get_handle"
               /\ UNCHANGED <<failure, exitCode, success, prev>>
    /\ UNCHANGED <<output_p010, saveVars>>

\* heif_context_get_primary_image_handle
GetHandle ==
    /\ pc = "get_handle"
    /\ \E ok \in BOOLEAN :
          IF ok
          THEN /\ pc' = "decode"
               /\ UNCHANGED <<failure, exitCode, success, prev>>
          ELSE Exit(RetHandle, "handle")
    /\ UNCHANGED <<output_p010, saveVars>>

\* heif_decode_image, then the dispatch on output_p010
DecodeImage ==
    /\ pc = "decode"
    /\ \/ /\ Exit(RetDecode, "decode")
          /\ UNCHANGED img
       \/ /\ \E im \in DecodedImages : img' = im
          /\ pc' = IF output_p010 THEN "p010_open" ELSE "uhdr_open"
          /\ UNCHANGED <<failure, exitCode, success, prev>>
    /\ UNCHANGED <<output_p010, fp, file, raw_uhdr_image, heap, reads,
                   encoder, ret>>

\* if (ret) return ret;  ...  std::cout << "Success!"; return 0;
MainAfterSave ==
    /\ pc = "main_ret"
    /\ pc' = "done"
    /\ exitCode' = ret
    /\ success' = (ret = 0)
    /\ UNCHANGED <<output_p010, saveVars, failure, prev>>

\* The program is started again (by a script); the failure category and exit
\* code of the last failed run are remembered.
Rerun ==
    /\ pc \in {"done", "aborted", "crashed"}
    /\ prev' = IF failure # "none" /\ exitCode >= 0
               THEN [failure |-> failure, exitCode |-> exitCode,
                     p010 |-> output_p010]
               ELSE prev
    /\ pc' = "main"
    /\ output_p010' = FALSE
    /\ img' = NoImage
    /\ fp' = [open |-> FALSE, bad |-> FALSE, requested |-> 0]
    /\ file' = [touched |-> FALSE, data |-> <<>>]
    /\ raw_uhdr_image' = NoRaw
    /\ heap' = [planeY |-> "none", planeUV |-> "none", output |-> "none",
                overflow |-> FALSE]
    /\ reads' = [Y |-> <<>>, Cb |-> <<>>, Cr |-> <<>>]
    /\ encoder' = [invoked |-> FALSE, released |-> FALSE, size |-> 0]
    /\ ret' = -1
    /\ failure' = "none"
    /\ exitCode' = -1
    /\ success' = FALSE

\* ---------------------------------------------------------------- both save functions

mainVars == <<output_p010, img, exitCode, success, prev>>

\* return <code>; from a save function: the ofstream's destructor closes fp.
Return(code, category) ==
    /\ pc' = "main_ret"
    /\ ret' = code
    /\ failure' = category
    /\ fp' = [fp EXCEPT !.open = FALSE]

\* The (y, z) loop nest visits w*h positions; the k-th reads this word offset.
LoopOffsets(w, h) ==
    [k \in 1..(w * h) |-> SrcOffset((k - 1) % w, (k - 1) \div w, w)]

\* Words produced by the luma loop, in word_pos order.
RepackLuma(im) ==
    [k \in 1..(im.yw * im.yh) |-> Shl6(im.Y[LoopOffsets(im.yw, im.yh)[k] + 1])]

\* Words produced by the chroma loop, in word_pos order: Cb then Cr.
RepackChroma(im) ==
    [k \in 1..(2 * im.cw * im.ch) |->
        LET off == LoopOffsets(im.cw, im.ch)[((k - 1) \div 2) + 1]
        IN  IF k % 2 = 1 THEN Shl6(im.Cb[off + 1]) ELSE Shl6(im.Cr[off + 1])]

\* Numbers of elements a sequence of len writes may get into the file: none,
\* half of them, or all.
WrittenCounts(len) == {0, len \div 2, len}

\* fp.write of each element of data: once a write fails the stream is bad and
\* later writes store nothing.  n is the number of elements that reach the file.
StreamWrite(data, n) ==
    /\ n \in WrittenCounts(Len(data))
    /\ fp.bad => n = 0
    /\ file' = [file EXCEPT !.data = @ \o SubSeq(data, 1, n)]
    /\ fp' = [fp EXCEPT !.bad = @ \/ n < Len(data),
                        !.requested = @ + Len(data)]

\* std::ofstream fp(output_filename, out | binary): creates or truncates.
OpenOutput(next) ==
    \E ok \in BOOLEAN :
        IF ok
        THEN /\ fp' = [open |-> TRUE, bad |-> FALSE, requested |-> 0]
             /\ file' = [touched |-> TRUE, data |-> <<>>]
             /\ pc' = next
             /\ UNCHANGED <<ret, failure>>
        ELSE /\ Return(RetOutputOpen, "output_open")
             /\ UNCHANGED file

\* The three asserts on the strides, then if (yw < 0 || cw < 0).
CheckGeometry(next) ==
    IF img.y_stride <= 0 \/ img.cb_stride <= 0 \/ img.cr_stride <= 0
    THEN /\ pc' = "aborted"
         /\ UNCHANGED <<fp, ret, failure>>
    ELSE IF GeometryRejected(img.yw, img.cw)
    THEN Return(RetGeometry, "geometry")
    ELSE /\ pc' = next
         /\ UNCHANGED <<fp, ret, failure>>

\* ---------------------------------------------------------------- save_p010_file

P010OpenOutput ==
    /\ pc = "p010_open"
    /\ OpenOutput("p010_params")
    /\ UNCHANGED <<mainVars, raw_uhdr_image, heap, reads, encoder>>

P010GetParams ==
    /\ pc = "p010_params"
    /\ CheckGeometry("p010_depth")
    /\ UNCHANGED <<mainVars, file, raw_uhdr_image, heap, reads, encoder>>

P010CheckDepth ==
    /\ pc = "p010_depth"
    /\ IF DepthSupported(img.y_bpp)
       THEN /\ pc' = "p010_luma"
            /\ UNCHANGED <<fp, ret, failure>>
       ELSE Return(RetBitDepth, "bitdepth")
    /\ UNCHANGED <<mainVars, file, raw_uhdr_image, heap, reads, encoder>>

P010WriteLuma ==
    /\ pc = "p010_luma"
    /\ reads' = [reads EXCEPT !.Y = @ \o LoopOffsets(img.yw, img.yh)]
    /\ \E n \in WrittenCounts(Len(RepackLuma(img))) :
          StreamWrite(RepackLuma(img), n)
    /\ pc' = "p010_chroma"
    /\ UNCHANGED <<mainVars, raw_uhdr_image, heap, encoder, ret, failure>>

P010WriteChroma ==
    /\ pc = "p010_chroma"
    /\ reads' = [reads EXCEPT !.Cb = @ \o LoopOffsets(img.cw, img.ch),
                              !.Cr = @ \o LoopOffsets(img.cw, img.ch)]
    /\ \E n \in WrittenCounts(Len(RepackChroma(img))) :
          StreamWrite(RepackChroma(img), n)
    /\ pc' = "p010_close"
    /\ UNCHANGED <<mainVars, raw_uhdr_image, heap, encoder, ret, failure>>

\* fp.close(); return 0;
P010Close ==
    /\ pc = "p010_close"
    /\ Return(0, "none")
    /\ UNCHANGED <<mainVars, file, raw_uhdr_image, heap, reads, encoder>>

\* ---------------------------------------------------------------- save_uhdr_jpg_file

UhdrOpenOutput ==
    /\ pc = "uhdr_open"
    /\ OpenOutput("uhdr_params")
    /\ UNCHANGED <<mainVars, raw_uhdr_image, heap, reads, encoder>>

UhdrGetParams ==
    /\ pc = "uhdr_params"
    /\ CheckGeometry("uhdr_setup")
    /\ UNCHANGED <<mainVars, file, raw_uhdr_image, heap, reads, encoder>>

\* Bytes asked of malloc for the Y plane and for the UV plane.
LumaAllocBytes(yw, yh) == 2 * yw * yh

ChromaAllocBytes(yw, yh) == 2 * (yw \div 2) * (yh \div 2) * 2

\* uhdr_raw_image_t raw_uhdr_image{}; ... the two mallocs and the strides.
UhdrSetupRawImage ==
    /\ pc = "uhdr_setup"
    /\ raw_uhdr_image' =
          [w |-> img.yw, h |-> img.yh, planeY |-> <<>>, planeUV |-> <<>>,
           allocY |-> LumaAllocBytes(img.yw, img.yh) \div 2,
           allocUV |-> ChromaAllocBytes(img.yw, img.yh) \div 2,
           strideY |-> img.yw, strideUV |-> img.yw]
    /\ heap' = [heap EXCEPT !.planeY = "allocated", !.planeUV = "allocated"]
    /\ pc' = "uhdr_depth"
    /\ UNCHANGED <<mainVars, fp, file, reads, encoder, ret, failure>>

UhdrCheckDepth ==
    /\ pc = "uhdr_depth"
    /\ IF DepthSupported(img.y_bpp)
       THEN /\ pc' = "uhdr_luma"
            /\ UNCHANGED <<fp, ret, failure>>
       ELSE Return(RetBitDepth, "bitdepth")
    /\ UNCHANGED <<mainVars, file, raw_uhdr_image, heap, reads, encoder>>

UhdrRepackLuma ==
    /\ pc = "uhdr_luma"
    /\ reads' = [reads EXCEPT !.Y = @ \o LoopOffsets(img.yw, img.yh)]
    /\ raw_uhdr_image' = [raw_uhdr_image EXCEPT !.planeY = RepackLuma(img)]
    /\ pc' = "uhdr_chroma"
    /\ UNCHANGED <<mainVars, fp, file, heap, encoder, ret, failure>>

\* The chroma loop stores 2*cw*ch words; a store past the allocation is a heap
\* overflow, after which the process either goes on or crashes.
UhdrRepackChroma ==
    /\ pc = "uhdr_chroma"
    /\ reads' = [reads EXCEPT !.Cb = @ \o LoopOffsets(img.cw, img.ch),
                              !.Cr = @ \o LoopOffsets(img.cw, img.ch)]
    /\ raw_uhdr_image' = [raw_uhdr_image EXCEPT !.planeUV = RepackChroma(img)]
    /\ LET over == Len(RepackChroma(img)) > raw_uhdr_image.allocUV
       IN  /\ heap' = [heap EXCEPT !.overflow = over]
           /\ \E crash \in BOOLEAN :
                 /\ crash => over
                 /\ pc' = IF crash THEN "crashed" ELSE "uhdr_set_raw"
    /\ UNCHANGED <<mainVars, fp, file, encoder, ret, failure>>

\* uhdr_create_encoder, uhdr_enc_set_raw_image
UhdrSetRawImage ==
    /\ pc = "uhdr_set_raw"
    /\ \E ok \in BOOLEAN :
          IF ok
          THEN /\ encoder' = [encoder EXCEPT !.invoked = TRUE]
               /\ pc' = "uhdr_encode"
               /\ UNCHANGED <<fp, ret, failure>>
          ELSE /\ encoder' = [encoder EXCEPT !.invoked = TRUE,
                                             !.released = TRUE]
               /\ Return(RetEncSetup, "enc_setup")
    /\ UNCHANGED <<mainVars, file, raw_uhdr_image, heap, reads>>

\* the uhdr_enc_set_* calls, uhdr_encode
UhdrEncode ==
    /\ pc = "uhdr_encode"
    /\ \E ok \in BOOLEAN :
          IF ok
          THEN /\ pc' = "uhdr_copy"
               /\ UNCHANGED <<encoder, fp, ret, failure>>
          ELSE /\ encoder' = [encoder EXCEPT !.released = TRUE]
               /\ Return(RetEncEncode, "enc_encode")
    /\ UNCHANGED <<mainVars, file, raw_uhdr_image, heap, reads>>

\* uhdr_get_encoded_stream, malloc + memcpy of the stream, uhdr_release_encoder
UhdrCopyStream ==
    /\ pc = "uhdr_copy"
    /\ \E sz \in 1..MaxEnc :
          encoder' = [encoder EXCEPT !.size = sz, !.released = TRUE]
    /\ heap' = [heap EXCEPT !.output = "allocated"]
    /\ pc' = "uhdr_write"
    /\ UNCHANGED <<mainVars, fp, file, raw_uhdr_image, reads, ret, failure>>

\* The encoded stream, as bytes.
EncodedStream(sz) == [i \in 1..sz |-> 255]

\* if (fp.is_open()) fp.write(...) else return 13;  ...  return 0;
UhdrWrite ==
    /\ pc = "uhdr_write"
    /\ IF fp.open
       THEN /\ \E n \in WrittenCounts(encoder.size) :
                  /\ StreamWrite(EncodedStream(encoder.size), n)
                  /\ pc' = "main_ret"
                  /\ ret' = 0
                  /\ failure' = "none"
       ELSE /\ Return(RetWrite, "write")
            /\ UNCHANGED file
    /\ UNCHANGED <<mainVars, raw_uhdr_image, heap, reads, encoder>>

\* ---------------------------------------------------------------- specification

Next ==
    \/ ParseArgs
    \/ OpenInput
    \/ ContextAlloc
    \/ ReadFromFile
    \/ NumImages
    \/ GetHandle
    \/ DecodeImage
    \/ MainAfterSave
    \/ Rerun
    \/ P010OpenOutput
    \/ P010GetParams
    \/ P010CheckDepth
    \/ P010WriteLuma
    \/ P010WriteChroma
    \/ P010Close
    \/ UhdrOpenOutput
    \/ UhdrGetParams
    \/ UhdrSetupRawImage
    \/ UhdrCheckDepth
    \/ UhdrRepackLuma
    \/ UhdrRepackChroma
    \/ UhdrSetRawImage
    \/ UhdrEncode
    \/ UhdrCopyStream
    \/ UhdrWrite

Spec == Init /\ [][Next]_vars

\* ---------------------------------------------------------------- properties

\* heif_decode_image has handed an image over.
Decoded == img # NoImage

\* The save function has returned (to main, or main has exited after it).
Returned == pc \in {"main_ret", "done"} /\ ret # -1

\* (source_sample & 0x3FF) << 6
PackedSample(word) == (word % (2 ^ TenBit)) * ShiftMul

\* Source row strides in 16-bit words.
Ys == img.y_stride \div 2

Cs == img.cb_stride \div 2

UhdrLumaDone ==
    pc \in {"uhdr_chroma", "uhdr_set_raw", "uhdr_encode", "uhdr_copy",
            "uhdr_write"}

UhdrChromaDone ==
    pc \in {"uhdr_set_raw", "uhdr_encode", "uhdr_copy", "uhdr_write"}

P010LumaDone ==
    /\ pc \in {"p010_chroma", "p010_close"}
    /\ Len(file.data) >= img.yw * img.yh

P010ChromaDone ==
    /\ pc = "p010_close"
    /\ Len(file.data) = (img.yw * img.yh) + (2 * img.cw * img.ch)

\* out[y*Yw + x] is the packed sample of luma[y*Ys + x].
LumaNormalized(out) ==
    \A y \in 0..(img.yh - 1), x \in 0..(img.yw - 1) :
        out[(y * img.yw) + x + 1] = PackedSample(img.Y[(y * Ys) + x + 1])

\* uv[2*(y*Cw+x)] comes from chromaBlue[y*Cs+x], uv[2*(y*Cw+x)+1] from
\* chromaRed[y*Cs+x].
ChromaPaired(uv, base) ==
    \A y \in 0..(img.ch - 1), x \in 0..(img.cw - 1) :
        /\ uv[base + (2 * ((y * img.cw) + x)) + 1]
              = PackedSample(img.Cb[(y * Cs) + x + 1])
        /\ uv[base + (2 * ((y * img.cw) + x)) + 2]
              = PackedSample(img.Cr[(y * Cs) + x + 1])

\* C1: stride normalization.  After the luma loop of either save function,
\* output word y*Yw+x is the packed sample found at luma[y*Ys+x], whatever the
\* source row stride Ys >= Yw; padding words never reach the output.
C1_StrideNormalization ==
    /\ UhdrLumaDone => LumaNormalized(raw_uhdr_image.planeY)
    /\ P010LumaDone => LumaNormalized(file.data)

\* C2: bit placement.  Every word the luma loop emits equals
\* (source_word & 0x3FF) << 6 of the 16-bit source word it read for that
\* position, whatever the 6 high bits of that source word; the low 6 bits of
\* the emitted word are zero and it fits 16 bits.
C2_BitPlacement ==
    /\ UhdrLumaDone =>
          /\ Len(raw_uhdr_image.planeY) = Len(reads.Y)
          /\ \A k \in 1..Len(raw_uhdr_image.planeY) :
                /\ raw_uhdr_image.planeY[k]
                      = PackedSample(img.Y[reads.Y[k] + 1])
                /\ raw_uhdr_image.planeY[k] % ShiftMul = 0
                /\ raw_uhdr_image.planeY[k] \in 0..(WordMod - 1)
    /\ P010LumaDone =>
          \A k \in 1..(img.yw * img.yh) :
                /\ file.data[k] = PackedSample(img.Y[reads.Y[k] + 1])
                /\ file.data[k] % ShiftMul = 0
                /\ file.data[k] \in 0..(WordMod - 1)

\* C2 witness: the in-memory luma loop has packed a source word whose high 6
\* bits were set into a non-zero output word.
C2_Witness ==
    /\ UhdrLumaDone
    /\ \E k \in 1..Len(raw_uhdr_image.planeY) :
          /\ img.Y[reads.Y[k] + 1] >= 2 ^ TenBit
          /\ raw_uhdr_image.planeY[k] > 0

\* C3: chroma interleaving.  After the chroma loop of either save function,
\* packed word 2*(y*Cw+x) is the packed Cb sample at chromaBlue[y*Cs+x] and
\* word 2*(y*Cw+x)+1 the packed Cr sample at chromaRed[y*Cs+x].
C3_ChromaPairing ==
    /\ UhdrChromaDone => ChromaPaired(raw_uhdr_image.planeUV, 0)
    /\ P010ChromaDone => ChromaPaired(file.data, img.yw * img.yh)

\* A plane of zero width or zero height.
ZeroGeometry ==
    /\ Decoded
    /\ (img.yw = 0 \/ img.yh = 0 \/ img.cw = 0 \/ img.ch = 0)

\* C4: with a plane of zero width or height the conversion allocates no
\* packed buffer, runs no repack loop, never calls the encoder, and returns
\* the non-zero InvalidGeometry code.
C4_ZeroGeometryRejected ==
    ZeroGeometry =>
        /\ heap.planeY = "none" /\ heap.planeUV = "none"
        /\ ~encoder.invoked
        /\ pc \notin {"uhdr_luma", "uhdr_chroma", "p010_luma", "p010_chroma"}
        /\ (Returned /\ file.touched)
              => (ret = RetGeometry /\ failure = "geometry")
        /\ ~success

\* C5: with a bit depth other than 10 neither save function reads a sample
\* of the Y, Cb or Cr plane or calls the encoder, neither returns 0, and once
\* the output is open and the widths are non-negative both return the
\* unsupported-bit-depth failure.
C5_UnsupportedBitDepth ==
    (Decoded /\ img.y_bpp # TenBit) =>
        /\ reads = [Y |-> <<>>, Cb |-> <<>>, Cr |-> <<>>]
        /\ ~encoder.invoked
        /\ ret # 0 /\ ~success
        /\ (Returned /\ file.touched /\ ~GeometryRejected(img.yw, img.cw))
              => (ret = RetBitDepth /\ failure = "bitdepth")

\* C5 witness: an 8-bit image with samples in its planes was rejected by the
\* JPEG path.
C5_Witness ==
    /\ pc = "done"
    /\ ~output_p010
    /\ img.y_bpp = 8
    /\ Len(img.Y) > 0 /\ Len(img.Cb) > 0
    /\ failure = "bitdepth"
    /\ exitCode = RetBitDepth

\* C6: two failed runs end with the same exit code exactly when they failed
\* in the same category, in whichever output path.
C6_DistinctExitCodes ==
    (pc = "done" /\ failure # "none" /\ prev.failure # "none") =>
        ((failure = prev.failure) <=> (exitCode = prev.exitCode))

\* C7: when save_uhdr_jpg_file has returned, no packed buffer it allocated
\* is still allocated.
C7_BuffersReleased ==
    Returned => (heap.planeY # "allocated" /\ heap.planeUV # "allocated")

\* C8: a save function returns 0, and main prints "Success!", only when every
\* output element it asked the stream to write reached the file.
C8_ShortWriteIsFailure ==
    ((Returned /\ ret = 0) \/ success) =>
        (~fp.bad /\ Len(file.data) = fp.requested)

\* C9: a conversion that ends in invalid geometry, unsupported bit depth,
\* encoder setup failure or encoder encode failure has not created, truncated
\* or written the output file.
C9_NoPartialOutput ==
    (Returned /\ failure \in {"geometry", "bitdepth", "enc_setup", "enc_encode"})
        => ~file.touched

\* C10: the luma buffer holds exactly Yw*Yh words and the chroma buffer
\* exactly 2*Cw*Ch words, so no repack loop stores past its buffer.
C10_ExactBufferSizes ==
    (heap.planeY = "allocated" /\ heap.planeUV = "allocated") =>
        /\ raw_uhdr_image.allocY = img.yw * img.yh
        /\ raw_uhdr_image.allocUV = 2 * img.cw * img.ch
        /\ Len(raw_uhdr_image.planeY) <= raw_uhdr_image.allocY
        /\ Len(raw_uhdr_image.planeUV) <= raw_uhdr_image.allocUV
        /\ ~heap.overflow

====
